---- MODULE Spec2Model ----
(***************************************************************************)
(* Leave-request lifecycle and balance engine of the employee leave        *)
(* system (Django apps leaves/ and accounts/).  The database tables        *)
(* LeaveRequest and LeaveBalance are the state; every view, admin handler  *)
(* and signal receiver that writes them is an action.  Spec runs each      *)
(* handler as one step; SpecConc splits the approval handler into its      *)
(* database queries so that two handlers can interleave.                   *)
(***************************************************************************)
EXTENDS Integers, FiniteSets, Sequences, TLC

\* ------------------------------------------------------------------ bounds
MaxRequests == 2      \* primary keys 1..MaxRequests are handed out
MaxDay == 2           \* the calendar is the days 0..MaxDay
NumSessions == 2      \* concurrent approval handlers of SpecConc
MaxLeaveDays == 3     \* the days a leave type grants (21 in the tests)

\* ------------------------------------------------------------- reference data
PENDING == "P"
APPROVED == "A"
REJECTED == "R"
CANCELLED == "C"
STATUS_CHOICES == {PENDING, APPROVED, REJECTED, CANCELLED}

NoUser == "none"
\* the users who act: an employee and the manager of that employee
Users == {"e1", "m1"}
\* the employees who hold a balance row; e2 never acts
BalanceHolders == {"e1", "e2"}
\* the users who act on the admin site and the approval pages of SpecAdmin:
\* besides e1 and m1, a manager m2 who manages nobody and an HR user hr1 who
\* is staff and no manager
AdminUsers == {"e1", "m1", "m2", "hr1"}
\* the employees the admin add form is used for
AdminEmployees == {"e1"}
LeaveTypes == {"annual"}
Days == 0..MaxDay
NoDate == 0 - 1
Pks == 1..MaxRequests
Sessions == 1..NumSessions

\* The approval views read two things of a user that accounts.CustomUser
\* does not declare: the attribute is_manager (ManagerRequiredMixin) and the
\* relation manager (the querysets' employee__manager).  They are data of
\* the users here: m1 is a manager, and the manager of e1 and of e2.
is_manager(u) == u \in {"m1", "m2"}
manager(e) == IF e \in {"e1", "e2"} THEN "m1" ELSE NoUser
\* the admin site admits staff users
is_staff(u) == u \in {"m1", "hr1"}
\* LeaveType.max_days
max_days(lt) == MaxLeaveDays

VARIABLES
  requests,   \* LeaveRequest table: pk -> row
  nextpk,     \* the next primary key the table hands out
  balances,   \* LeaveBalance table: <<employee, leave_type>> -> row
  today,      \* date.today()
  response,   \* what the last handler answered
  sess        \* approval handlers in flight (SpecConc)

vars == <<requests, nextpk, balances, today, response, sess>>

\* ------------------------------------------------------------ LeaveRequest
\* a new instance whose status defaults to Approved
NewInstance_approved ==
  [employee |-> NoUser, leave_type |-> "annual", start_date |-> NoDate,
   end_date |-> NoDate, status |-> APPROVED, approved_by |-> NoUser]

\* LeaveRequest(): the field defaults
NewInstance ==
  [employee |-> NoUser, leave_type |-> "annual", start_date |-> NoDate,
   end_date |-> NoDate, status |-> PENDING, approved_by |-> NoUser]

\* the day count that leaves out the last day
duration_exclusive(r) ==
  IF r.start_date # NoDate /\ r.end_date # NoDate
  THEN r.end_date - r.start_date
  ELSE 0

\* LeaveRequest.duration
duration(r) ==
  IF r.start_date # NoDate /\ r.end_date # NoDate
  THEN (r.end_date - r.start_date) + 1
  ELSE 0

\* LeaveRequest.can_be_cancelled
can_be_cancelled(r) ==
  IF r.start_date = NoDate THEN FALSE
  ELSE r.status \in {PENDING, APPROVED} /\ r.start_date > today

\* clean without the check of end_date against start_date
clean_end_date_norange(r) ==
  IF r.end_date = NoDate THEN {<<"end_date", "required">>} ELSE {}

\* clean without the check of start_date against today
clean_start_date_nopast(r, is_new) ==
  IF r.start_date = NoDate THEN {<<"start_date", "required">>} ELSE {}

\* LeaveRequest.clean: the error dict, a set of <<field, message>>; a later
\* assignment to the same key replaces the earlier one.
clean_end_date(r) ==
  IF r.end_date = NoDate THEN {<<"end_date", "required">>}
  ELSE IF r.start_date = NoDate THEN {}
  ELSE IF (r.end_date - r.start_date) + 1 <= 0 THEN {<<"end_date", "duration">>}
  ELSE IF r.end_date < r.start_date THEN {<<"end_date", "before_start">>}
  ELSE {}

clean_start_date(r, is_new) ==
  IF r.start_date = NoDate THEN {<<"start_date", "required">>}
  ELSE IF r.end_date = NoDate THEN {}
  ELSE IF is_new /\ r.start_date < today THEN {<<"start_date", "past">>}
  ELSE {}

clean(r, is_new) == clean_start_date(r, is_new) \cup clean_end_date(r)

\* ------------------------------------------------------------ LeaveBalance
\* the lookup without the employee filter
balance_get_anyone(bals, employee, leave_type) ==
  {k \in DOMAIN bals : k[2] = leave_type}

\* LeaveBalance.objects.get(employee=..., leave_type=...): the keys of the rows
\* that match; none is DoesNotExist.
balance_get(bals, employee, leave_type) ==
  {k \in DOMAIN bals : k[1] = employee /\ k[2] = leave_type}

BalanceKey(bals, r) == CHOOSE k \in balance_get(bals, r.employee, r.leave_type) : TRUE

\* update_balance that leaves out the decrement
update_balance_nodecrement(b, days_used) ==
  [row |-> b, saved |-> days_used <= b.remaining_days]

\* update_balance without the comparison with remaining_days
update_balance_unchecked(b, days_used) ==
  [row |-> [b EXCEPT !.remaining_days = b.remaining_days - days_used],
   saved |-> TRUE]

\* LeaveBalance.update_balance on an in-memory row: the row it leaves and
\* whether it saved it.
update_balance(b, days_used) ==
  IF days_used <= b.remaining_days
  THEN [row |-> [b EXCEPT !.remaining_days = b.remaining_days - days_used],
        saved |-> TRUE]
  ELSE [row |-> b, saved |-> FALSE]

\* the receiver without the test of the status
update_leave_balance_anystatus(bals, instance) ==
  IF balance_get(bals, instance.employee, instance.leave_type) # {}
  THEN [bals EXCEPT ![BalanceKey(bals, instance)] =
          update_balance(bals[BalanceKey(bals, instance)], duration(instance)).row]
  ELSE bals

\* the receiver that falls back on another row of the leave type
update_leave_balance_fallback(bals, instance) ==
  IF instance.status = APPROVED
  THEN IF balance_get(bals, instance.employee, instance.leave_type) # {}
       THEN [bals EXCEPT ![BalanceKey(bals, instance)] =
               update_balance(bals[BalanceKey(bals, instance)], duration(instance)).row]
       ELSE IF balance_get_anyone(bals, instance.employee, instance.leave_type) # {}
       THEN LET k == CHOOSE j \in balance_get_anyone(bals, instance.employee,
                                                     instance.leave_type) : TRUE
            IN [bals EXCEPT ![k] = update_balance(bals[k], duration(instance)).row]
       ELSE bals
  ELSE bals

\* signals.update_leave_balance, run on post_save of a LeaveRequest: the
\* balance table it leaves.
update_leave_balance(bals, instance) ==
  IF instance.status = APPROVED
  THEN IF balance_get(bals, instance.employee, instance.leave_type) # {}
       THEN [bals EXCEPT ![BalanceKey(bals, instance)] =
               update_balance(bals[BalanceKey(bals, instance)], duration(instance)).row]
       ELSE bals
  ELSE bals

\* LeaveRequest.save of an instance that passed full_clean: the row is
\* written and post_save runs.
SaveRow(pk, instance) ==
  /\ requests' = [p \in DOMAIN requests \cup {pk} |->
                    IF p = pk THEN instance ELSE requests[p]]
  /\ balances' = update_leave_balance(balances, instance)

Answer(view, pk, code, errors) ==
  [view |-> view, pk |-> pk, code |-> code, errors |-> errors]

\* -------------------------------------------------------- LeaveRequestForm
\* LeaveRequestForm.clean: the first check that fails raises.
FormClean(user, lt, s, e) ==
  IF s # NoDate /\ e # NoDate
  THEN IF e < s THEN {<<"end_date", "before_start">>}
       ELSE IF s < today THEN {<<"start_date", "past">>}
       ELSE IF (e - s) + 1 <= 0 THEN {<<"__all__", "duration">>}
       ELSE IF user # NoUser
            THEN IF balance_get(balances, user, lt) = {}
                 THEN {<<"__all__", "no_balance">>}
                 ELSE IF balances[CHOOSE k \in balance_get(balances, user, lt) : TRUE].remaining_days
                           < (e - s) + 1
                      THEN {<<"__all__", "insufficient">>}
                      ELSE {}
            ELSE {}
  ELSE {}

\* the required date fields of the form
FormFieldErrors(s, e) ==
  (IF s = NoDate THEN {<<"start_date", "required">>} ELSE {})
  \cup (IF e = NoDate THEN {<<"end_date", "required">>} ELSE {})

Fields(errs) == {x[1] : x \in errs}

\* the instance the model form builds: a field that failed validation keeps
\* the instance's value.
FormInstance(instance, lt, s, e, errs) ==
  [instance EXCEPT
     !.leave_type = lt,
     !.start_date = IF "start_date" \in Fields(errs) THEN @ ELSE s,
     !.end_date = IF "end_date" \in Fields(errs) THEN @ ELSE e]

\* LeaveRequestForm.is_valid: field errors, clean(), then the model's clean()
\* on the built instance.
FormErrors(user, instance, is_new, lt, s, e) ==
  LET own == FormFieldErrors(s, e) \cup FormClean(user, lt, s, e)
      built == FormInstance(instance, lt, s, e, own)
  IN own \cup clean(built, is_new)

\* ------------------------------------------------------------------- views
\* LeaveRequestCreateView (POST)
LeaveRequestCreateView(u, lt, s, e) ==
  LET errs == FormErrors(u, NewInstance, TRUE, lt, s, e)
      instance == [FormInstance(NewInstance, lt, s, e, errs) EXCEPT !.employee = u]
      found == balance_get(balances, u, lt)
  IN /\ nextpk <= MaxRequests
     /\ IF errs # {}
        THEN /\ response' = Answer("create", 0, "invalid", errs)
             /\ UNCHANGED <<requests, nextpk, balances>>
        ELSE IF found = {}
        THEN /\ response' = Answer("create", 0, "invalid", {<<"__all__", "no_balance">>})
             /\ UNCHANGED <<requests, nextpk, balances>>
        ELSE IF balances[CHOOSE k \in found : TRUE].remaining_days < (e - s) + 1
        THEN /\ response' = Answer("create", 0, "invalid", {<<"__all__", "insufficient">>})
             /\ UNCHANGED <<requests, nextpk, balances>>
        ELSE IF clean(instance, TRUE) # {}
        THEN /\ response' = Answer("create", 0, "error", clean(instance, TRUE))
             /\ UNCHANGED <<requests, nextpk, balances>>
        ELSE /\ SaveRow(nextpk, instance)
             /\ nextpk' = nextpk + 1
             /\ response' = Answer("create", nextpk, "ok", {})
     /\ UNCHANGED <<today, sess>>

\* the test that admits every logged-in user
UpdateTestFunc_anyone(u, leave) == TRUE

\* LeaveRequestUpdateView.test_func
UpdateTestFunc(u, leave) == u = leave.employee /\ leave.status = PENDING

\* LeaveRequestUpdateView (POST): the owner edits a Pending request.  The
\* view passes no user to the form.
LeaveRequestUpdateView(u, pk, lt, s, e) ==
  /\ IF pk \notin DOMAIN requests
     THEN /\ response' = Answer("update", pk, "404", {})
          /\ UNCHANGED <<requests, balances>>
     ELSE LET leave == requests[pk]
              errs == FormErrors(NoUser, leave, FALSE, lt, s, e)
              instance == FormInstance(leave, lt, s, e, errs)
          IN IF ~UpdateTestFunc(u, leave)
             THEN /\ response' = Answer("update", pk, "403", {})
                  /\ UNCHANGED <<requests, balances>>
             ELSE IF errs # {}
             THEN /\ response' = Answer("update", pk, "invalid", errs)
                  /\ UNCHANGED <<requests, balances>>
             ELSE IF instance.status # PENDING
             THEN /\ response' = Answer("update", pk, "invalid", {<<"__all__", "not_pending">>})
                  /\ UNCHANGED <<requests, balances>>
             ELSE IF clean(instance, FALSE) # {}
             THEN /\ response' = Answer("update", pk, "error", clean(instance, FALSE))
                  /\ UNCHANGED <<requests, balances>>
             ELSE /\ SaveRow(pk, instance)
                  /\ response' = Answer("update", pk, "ok", {})
  /\ UNCHANGED <<nextpk, today, sess>>

\* the test that leaves out the status
DeleteTestFunc_anystatus(u, leave) == u = leave.employee

\* LeaveRequestDeleteView.test_func
DeleteTestFunc(u, leave) == u = leave.employee /\ leave.status = PENDING

\* LeaveRequestDeleteView (POST): the owner deletes a Pending request.
LeaveRequestDeleteView(u, pk) ==
  /\ IF pk \notin DOMAIN requests
     THEN /\ response' = Answer("delete", pk, "404", {})
          /\ UNCHANGED requests
     ELSE IF ~DeleteTestFunc(u, requests[pk])
     THEN /\ response' = Answer("delete", pk, "403", {})
          /\ UNCHANGED requests
     ELSE /\ requests' = [p \in DOMAIN requests \ {pk} |-> requests[p]]
          /\ response' = Answer("delete", pk, "ok", {})
  /\ UNCHANGED <<nextpk, balances, today, sess>>

\* ManagerRequiredMixin.test_func
ManagerRequired(u) == is_manager(u)

\* the queryset without the status filter
ApprovalGetObject_anystatus(u, pk) ==
  /\ pk \in DOMAIN requests
  /\ manager(requests[pk].employee) = u

\* LeaveApprovalUpdateView.get_queryset, narrowed to pk by get_object
ApprovalGetObject(u, pk) ==
  /\ pk \in DOMAIN requests
  /\ requests[pk].status = PENDING
  /\ manager(requests[pk].employee) = u

\* LeaveApprovalUpdateView.form_valid: the instance it saves
ApprovalInstance(leave, u, st) ==
  [leave EXCEPT !.status = st, !.approved_by = u]

\* LeaveApprovalUpdateView (POST), fields = ['status']
LeaveApprovalUpdateView(u, pk, st) ==
  /\ IF ~ManagerRequired(u)
     THEN /\ response' = Answer("approval", pk, "403", {})
          /\ UNCHANGED <<requests, balances>>
     ELSE IF ~ApprovalGetObject(u, pk)
     THEN /\ response' = Answer("approval", pk, "404", {})
          /\ UNCHANGED <<requests, balances>>
     ELSE IF clean(ApprovalInstance(requests[pk], u, st), FALSE) # {}
     THEN /\ response' = Answer("approval", pk, "invalid",
                                clean(ApprovalInstance(requests[pk], u, st), FALSE))
          /\ UNCHANGED <<requests, balances>>
     ELSE /\ SaveRow(pk, ApprovalInstance(requests[pk], u, st))
          /\ response' = Answer("approval", pk, "ok", {})
  /\ UNCHANGED <<nextpk, today, sess>>

\* ------------------------------------------------------------------- admin
\* LeaveRequestAdmin.save_model: the instance it saves
AdminInstance(obj, u) ==
  IF obj.status = APPROVED /\ obj.approved_by = NoUser
  THEN [obj EXCEPT !.approved_by = u]
  ELSE obj

\* LeaveRequestAdmin change form: a staff user saves an existing request
\* with the status of the form, the other fields as they are.
AdminChangeView(u, pk, st) ==
  /\ is_staff(u)
  /\ pk \in DOMAIN requests
  /\ LET obj == [requests[pk] EXCEPT !.status = st]
     IN IF clean(obj, FALSE) # {}
        THEN /\ response' = Answer("admin_change", pk, "invalid", clean(obj, FALSE))
             /\ UNCHANGED <<requests, balances>>
        ELSE /\ SaveRow(pk, AdminInstance(obj, u))
             /\ response' = Answer("admin_change", pk, "ok", {})
  /\ UNCHANGED <<nextpk, today, sess>>

\* LeaveRequestAdmin add form (the save of a new instance, as
\* LeaveRequest.objects.create does it)
AdminAddView(u, emp, lt, st, s, e) ==
  /\ is_staff(u)
  /\ nextpk <= MaxRequests
  /\ LET obj == [NewInstance EXCEPT !.employee = emp, !.leave_type = lt,
                   !.status = st, !.start_date = s, !.end_date = e]
     IN IF clean(obj, TRUE) # {}
        THEN /\ response' = Answer("admin_add", 0, "invalid", clean(obj, TRUE))
             /\ UNCHANGED <<requests, nextpk, balances>>
        ELSE /\ SaveRow(nextpk, AdminInstance(obj, u))
             /\ nextpk' = nextpk + 1
             /\ response' = Answer("admin_add", nextpk, "ok", {})
  /\ UNCHANGED <<today, sess>>

\* ------------------------------------------------ approval, query by query
\* One POST to LeaveApprovalUpdateView, a step per database query: the
\* SELECT of get_object, the UPDATE of save, and in the post_save receiver
\* the SELECT of the balance and the UPDATE of LeaveBalance.save.
IdleSession ==
  [pc |-> "idle", user |-> NoUser, pk |-> 0, instance |-> NewInstance,
   key |-> <<NoUser, "annual">>,
   balance |-> [remaining_days |-> 0, carried_forward_days |-> 0,
                total_earned_days |-> 0],
   result |-> "none"]

\* dispatch: test_func, get_object, and the instance form_valid will save
ApprovalDispatch(p, u, pk, st) ==
  /\ sess[p].pc = "idle"
  /\ sess' = [sess EXCEPT ![p] =
       IF ~ManagerRequired(u)
       THEN [@ EXCEPT !.pc = "done", !.user = u, !.pk = pk, !.result = "403"]
       ELSE IF ~ApprovalGetObject(u, pk)
       THEN [@ EXCEPT !.pc = "done", !.user = u, !.pk = pk, !.result = "404"]
       ELSE [@ EXCEPT !.pc = "save", !.user = u, !.pk = pk,
                      !.instance = ApprovalInstance(requests[pk], u, st)]]
  /\ UNCHANGED <<requests, nextpk, balances, today, response>>

\* LeaveRequest.save: full_clean, then the UPDATE of every field
ApprovalSave(p) ==
  /\ sess[p].pc = "save"
  /\ IF clean(sess[p].instance, FALSE) # {}
     THEN /\ sess' = [sess EXCEPT ![p].pc = "done", ![p].result = "invalid"]
          /\ UNCHANGED requests
     ELSE /\ requests' = [requests EXCEPT ![sess[p].pk] = sess[p].instance]
          /\ sess' = [sess EXCEPT ![p].pc = "post_save"]
  /\ UNCHANGED <<nextpk, balances, today, response>>

\* update_leave_balance up to LeaveBalance.objects.get
SignalGet(p) ==
  /\ sess[p].pc = "post_save"
  /\ sess' = [sess EXCEPT ![p] =
       IF sess[p].instance.status = APPROVED
          /\ balance_get(balances, sess[p].instance.employee,
                         sess[p].instance.leave_type) # {}
       THEN [@ EXCEPT !.pc = "update_balance",
                      !.key = BalanceKey(balances, sess[p].instance),
                      !.balance = balances[BalanceKey(balances, sess[p].instance)]]
       ELSE [@ EXCEPT !.pc = "done", !.result = "ok"]]
  /\ UNCHANGED <<requests, nextpk, balances, today, response>>

\* balance.update_balance(instance.duration) on the row read before
SignalUpdate(p) ==
  /\ sess[p].pc = "update_balance"
  /\ LET r == update_balance(sess[p].balance, duration(sess[p].instance))
     IN balances' = IF r.saved
                    THEN [balances EXCEPT ![sess[p].key] = r.row]
                    ELSE balances
  /\ sess' = [sess EXCEPT ![p].pc = "done", ![p].result = "ok"]
  /\ UNCHANGED <<requests, nextpk, today, response>>

\* ----------------------------------------------------- admin site, balances
\* LeaveRequestAdmin.approve_leave_requests: queryset.filter(status='P')
\* .update(status='A', approved_by=request.user); update() writes the rows
\* without save() and without post_save.
approve_leave_requests(u, queryset) ==
  /\ is_staff(u)
  /\ requests' = [p \in DOMAIN requests |->
                    IF p \in queryset /\ requests[p].status = PENDING
                    THEN [requests[p] EXCEPT !.status = APPROVED, !.approved_by = u]
                    ELSE requests[p]]
  /\ response' = Answer("approve_leave_requests", 0, "ok", {})
  /\ UNCHANGED <<nextpk, balances, today, sess>>

\* LeaveRequestAdmin.reject_leave_requests
reject_leave_requests(u, queryset) ==
  /\ is_staff(u)
  /\ requests' = [p \in DOMAIN requests |->
                    IF p \in queryset /\ requests[p].status = PENDING
                    THEN [requests[p] EXCEPT !.status = REJECTED, !.approved_by = u]
                    ELSE requests[p]]
  /\ response' = Answer("reject_leave_requests", 0, "ok", {})
  /\ UNCHANGED <<nextpk, balances, today, sess>>

\* LeaveBalance.reset_balance on the row k
reset_balance(k) ==
  /\ k \in DOMAIN balances
  /\ balances' = [balances EXCEPT ![k] =
                    [remaining_days |-> max_days(k[2]),
                     carried_forward_days |-> 0,
                     total_earned_days |-> max_days(k[2])]]
  /\ response' = Answer("reset_balance", 0, "ok", {})
  /\ UNCHANGED <<requests, nextpk, today, sess>>

\* LeaveBalanceAdmin.reset_balances: remaining_days of every selected row is
\* set to the type's max_days and the row is saved.
reset_balances(u, queryset) ==
  /\ is_staff(u)
  /\ balances' = [k \in DOMAIN balances |->
                    IF k \in queryset
                    THEN [balances[k] EXCEPT !.remaining_days = max_days(k[2])]
                    ELSE balances[k]]
  /\ response' = Answer("reset_balances", 0, "ok", {})
  /\ UNCHANGED <<requests, nextpk, today, sess>>

\* the constraint left out
unique_together_unchecked(bals, employee, leave_type) == TRUE

\* LeaveBalance.Meta.unique_together = ('employee', 'leave_type'): whether a
\* new row for the pair is admitted
unique_together(bals, employee, leave_type) ==
  balance_get(bals, employee, leave_type) = {}

\* a LeaveBalance row is created (admin add form, objects.create)
LeaveBalanceAdd(u, employee, leave_type, row) ==
  /\ is_staff(u)
  /\ IF unique_together(balances, employee, leave_type)
     THEN /\ balances' = [k \in DOMAIN balances \cup {<<employee, leave_type>>} |->
                            IF k = <<employee, leave_type>> THEN row ELSE balances[k]]
          /\ response' = Answer("balance_add", 0, "ok", {})
     ELSE /\ balances' = balances
          /\ response' = Answer("balance_add", 0, "invalid", {<<"__all__", "unique_together">>})
  /\ UNCHANGED <<requests, nextpk, today, sess>>

\* a LeaveBalance row is deleted on the admin site
LeaveBalanceDelete(u, k) ==
  /\ is_staff(u)
  /\ k \in DOMAIN balances
  /\ balances' = [j \in DOMAIN balances \ {k} |-> balances[j]]
  /\ response' = Answer("balance_delete", 0, "ok", {})
  /\ UNCHANGED <<requests, nextpk, today, sess>>

\* the queryset without the status filter
LeaveApprovalListView_allstatuses(u) ==
  LET found == {pk \in DOMAIN requests : manager(requests[pk].employee) = u}
      n == Cardinality(found)
  IN {q \in [1..n -> found] :
        /\ \A i \in 1..n, j \in 1..n : i # j => q[i] # q[j]
        /\ \A i \in 1..n, j \in 1..n :
             i < j => requests[q[i]].start_date <= requests[q[j]].start_date}

\* LeaveApprovalListView.get_queryset: the Pending requests of the employees
\* whose manager is u, ordered by start_date; the order among equal
\* start_dates is the database's, so every such order is a possible result.
LeaveApprovalListView(u) ==
  LET found == {pk \in DOMAIN requests :
                  /\ requests[pk].status = PENDING
                  /\ manager(requests[pk].employee) = u}
      n == Cardinality(found)
  IN {q \in [1..n -> found] :
        /\ \A i \in 1..n, j \in 1..n : i # j => q[i] # q[j]
        /\ \A i \in 1..n, j \in 1..n :
             i < j => requests[q[i]].start_date <= requests[q[j]].start_date}

\* the rows HR enters for a new balance: the type's maximum, or the field
\* defaults
BalanceForms ==
  {[remaining_days |-> max_days("annual"), carried_forward_days |-> 0,
    total_earned_days |-> max_days("annual")],
   [remaining_days |-> 0, carried_forward_days |-> 0, total_earned_days |-> 0]}

\* the balance rows HR has set up: every holder has the type's maximum
InitialBalances ==
  [k \in BalanceHolders \X LeaveTypes |->
     [remaining_days |-> max_days(k[2]),
      carried_forward_days |-> 0,
      total_earned_days |-> max_days(k[2])]]

Init ==
  /\ requests = << >>
  /\ nextpk = 1
  /\ balances = InitialBalances
  /\ today = 1
  /\ response = Answer("none", 0, "none", {})
  /\ sess = [p \in Sessions |-> IdleSession]

\* the form data posted to the edit view: every form where the view reads
\* it, one form where the view answers before it reads the data
UpdatePosts(u, pk) ==
  IF pk \in DOMAIN requests /\ u = requests[pk].employee /\ requests[pk].status = PENDING
  THEN LeaveTypes \X Days \X Days
  ELSE {<<"annual", 1, 1>>}

\* the status posted to the approval view, likewise
ApprovalPosts(u, pk) ==
  IF is_manager(u) /\ pk \in DOMAIN requests /\ requests[pk].status = PENDING
  THEN STATUS_CHOICES
  ELSE {APPROVED}

Next ==
  \/ \E u \in Users, lt \in LeaveTypes, s \in Days \cup {NoDate}, e \in Days \cup {NoDate} :
       LeaveRequestCreateView(u, lt, s, e)
  \/ \E u \in Users, pk \in Pks : \E d \in UpdatePosts(u, pk) :
       LeaveRequestUpdateView(u, pk, d[1], d[2], d[3])
  \/ \E u \in Users, pk \in Pks : LeaveRequestDeleteView(u, pk)
  \/ \E u \in Users, pk \in Pks : \E st \in ApprovalPosts(u, pk) :
       LeaveApprovalUpdateView(u, pk, st)
  \/ \E u \in Users, pk \in Pks, st \in STATUS_CHOICES : AdminChangeView(u, pk, st)
  \/ \E u \in Users, emp \in AdminEmployees, lt \in LeaveTypes, st \in STATUS_CHOICES, s \in Days, e \in Days :
       AdminAddView(u, emp, lt, st, s, e)

Spec == Init /\ [][Next]_vars

\* requests are created as in Spec; approvals run query by query
NextConc ==
  \/ \E s \in Days, e \in Days : LeaveRequestCreateView("e1", "annual", s, e)
  \/ \E p \in Sessions, u \in Users, pk \in Pks, st \in {APPROVED, REJECTED} :
       ApprovalDispatch(p, u, pk, st)
  \/ \E p \in Sessions : ApprovalSave(p)
  \/ \E p \in Sessions : SignalGet(p)
  \/ \E p \in Sessions : SignalUpdate(p)

SpecConc == Init /\ [][NextConc]_vars

\* the balance row of e1 is any row HR may have entered
InitAdmin ==
  /\ requests = << >>
  /\ nextpk = 1
  /\ \E row \in BalanceForms :
       balances = [InitialBalances EXCEPT ![<<"e1", "annual">>] = row]
  /\ today = 1
  /\ response = Answer("none", 0, "none", {})
  /\ sess = [p \in Sessions |-> IdleSession]

\* requests are created and approved as in Spec; staff work on the admin
\* site: bulk actions on requests, resets of the balance rows, and the
\* balance row of e1 is deleted and entered again
NextAdmin ==
  \/ \E s \in Days, e \in Days : LeaveRequestCreateView("e1", "annual", s, e)
  \/ \E u \in AdminUsers, pk \in Pks : \E st \in ApprovalPosts(u, pk) :
       LeaveApprovalUpdateView(u, pk, st)
  \/ \E u \in AdminUsers, queryset \in SUBSET Pks : approve_leave_requests(u, queryset)
  \/ \E u \in AdminUsers, queryset \in SUBSET Pks : reject_leave_requests(u, queryset)
  \/ \E k \in BalanceHolders \X LeaveTypes : reset_balance(k)
  \/ \E u \in AdminUsers, queryset \in SUBSET (BalanceHolders \X LeaveTypes) :
       reset_balances(u, queryset)
  \/ \E u \in AdminUsers, employee \in AdminEmployees, lt \in LeaveTypes, row \in BalanceForms :
       LeaveBalanceAdd(u, employee, lt, row)
  \/ \E u \in AdminUsers, k \in AdminEmployees \X LeaveTypes : LeaveBalanceDelete(u, k)

SpecAdmin == InitAdmin /\ [][NextAdmin]_vars
\* ------------------------------------------------------------------ claims
Authority(u, pk) ==
  /\ is_manager(u)
  /\ pk \in DOMAIN requests
  /\ manager(requests[pk].employee) = u

OwnKey(pk) == <<requests[pk].employee, requests[pk].leave_type>>

\* C1: approving a Pending request whose balance row holds at least its
\* duration makes it Approved, records the approver in approved_by and lowers
\* remaining_days of that row by exactly the duration; the same holds of an
\* approval saved through the admin change form, which records an approver.
C1_ApprovalDeducts ==
  [][\A u \in Users, pk \in Pks :
       /\ ( /\ LeaveApprovalUpdateView(u, pk, APPROVED)
            /\ Authority(u, pk)
            /\ requests[pk].status = PENDING
            /\ OwnKey(pk) \in DOMAIN balances
            /\ balances[OwnKey(pk)].remaining_days >= duration(requests[pk]) )
          => /\ requests'[pk].status = APPROVED
             /\ requests'[pk].approved_by = u
             /\ balances'[OwnKey(pk)].remaining_days
                  = balances[OwnKey(pk)].remaining_days - duration(requests[pk])
       /\ ( /\ AdminChangeView(u, pk, APPROVED)
            /\ requests[pk].status = PENDING
            /\ OwnKey(pk) \in DOMAIN balances
            /\ balances[OwnKey(pk)].remaining_days >= duration(requests[pk]) )
          => /\ requests'[pk].status = APPROVED
             /\ requests'[pk].approved_by # NoUser
             /\ balances'[OwnKey(pk)].remaining_days
                  = balances[OwnKey(pk)].remaining_days - duration(requests[pk])
    ]_vars

\* a 2-day request was approved by m1 against the full balance of 3: 1 is left
C1_Witness ==
  \E pk \in DOMAIN requests :
    /\ response = Answer("approval", pk, "ok", {})
    /\ requests[pk].status = APPROVED
    /\ requests[pk].approved_by = "m1"
    /\ duration(requests[pk]) = 2
    /\ balances[OwnKey(pk)].remaining_days = max_days(requests[pk].leave_type) - 2

\* C2: the deduction of a request is applied once, at the save that moves it
\* from Pending to Approved; a save of a request that is already Approved
\* leaves remaining_days of every balance row as it was.
C2_DeductedOnce ==
  [][\A u \in Users, pk \in Pks, st \in STATUS_CHOICES :
       ( /\ AdminChangeView(u, pk, st) \/ LeaveApprovalUpdateView(u, pk, st)
         /\ pk \in DOMAIN requests
         /\ requests[pk].status = APPROVED )
       => \A k \in DOMAIN balances :
            balances'[k].remaining_days = balances[k].remaining_days
    ]_vars
\* C3: when two approval handlers work on the same Pending request at the
\* same time, one of them succeeds, the other is answered 404 (the request
\* is not in its queryset), and the balance loses the duration once.
C3_OneApprovalWins ==
  \A p \in Sessions, q \in Sessions :
    ( /\ p # q
      /\ \A r \in Sessions : sess[r].pc = "done" /\ sess[r].pk = sess[p].pk
      /\ is_manager(sess[q].user)
      /\ sess[p].result = "ok"
      /\ sess[p].instance.status = APPROVED
      /\ sess[q].result = "ok" => sess[q].instance.status = APPROVED )
    => /\ sess[q].result = "404"
       /\ balances[OwnKey(sess[p].pk)].remaining_days
            = InitialBalances[OwnKey(sess[p].pk)].remaining_days
                - duration(requests[sess[p].pk])

\* C4: an approve or reject posted for a request that is no longer Pending
\* is refused (404, or 403 for a user who is no manager) and leaves every
\* request row and every balance row as it was.
C4_NotPendingRefused ==
  [][\A u \in Users, pk \in Pks, st \in STATUS_CHOICES :
       ( /\ LeaveApprovalUpdateView(u, pk, st)
         /\ pk \in DOMAIN requests
         /\ requests[pk].status # PENDING )
       => /\ requests' = requests
          /\ balances' = balances
          /\ response'.code \in {"403", "404"}
    ]_vars

\* the manager approved a request that was already Approved and got a 404
C4_Witness ==
  /\ response = Answer("approval", response.pk, "404", {})
  /\ response.pk \in DOMAIN requests
  /\ requests[response.pk].status = APPROVED
  /\ manager(requests[response.pk].employee) = "m1"

\* C5: an approval (through the approval view or the admin change form)
\* saved while the balance row holds less than the request's duration is not
\* applied: the request stays Pending with approved_by as it was and no
\* balance row changes.
C5_RefusedDeductionBlocks ==
  [][\A u \in Users, pk \in Pks :
       ( /\ \/ LeaveApprovalUpdateView(u, pk, APPROVED) /\ Authority(u, pk)
            \/ AdminChangeView(u, pk, APPROVED)
         /\ pk \in DOMAIN requests
         /\ requests[pk].status = PENDING
         /\ OwnKey(pk) \in DOMAIN balances
         /\ balances[OwnKey(pk)].remaining_days < duration(requests[pk]) )
       => /\ requests'[pk].status = PENDING
          /\ requests'[pk].approved_by = requests[pk].approved_by
          /\ balances' = balances
    ]_vars

\* C6: when two Pending requests of one (employee, leave_type) are approved
\* at the same time and the row holds at least both durations, the row ends
\* at its initial value less both durations.
C6_NoLostUpdate ==
  \A p \in Sessions, q \in Sessions :
    ( /\ p # q
      /\ \A r \in Sessions : sess[r].pc = "done"
      /\ \A r \in Sessions \ {p, q} : sess[r].result # "ok"
      /\ sess[p].pk # sess[q].pk
      /\ sess[p].result = "ok" /\ sess[q].result = "ok"
      /\ sess[p].instance.status = APPROVED /\ sess[q].instance.status = APPROVED
      /\ OwnKey(sess[p].pk) = OwnKey(sess[q].pk)
      /\ InitialBalances[OwnKey(sess[p].pk)].remaining_days
           >= duration(sess[p].instance) + duration(sess[q].instance) )
    => balances[OwnKey(sess[p].pk)].remaining_days
         = InitialBalances[OwnKey(sess[p].pk)].remaining_days
             - duration(sess[p].instance) - duration(sess[q].instance)

\* C7: rejecting a Pending request makes it Rejected, records the rejecting
\* approver in approved_by and changes no balance row.
C7_RejectKeepsBalances ==
  [][\A u \in Users, pk \in Pks :
       ( /\ LeaveApprovalUpdateView(u, pk, REJECTED)
         /\ Authority(u, pk)
         /\ requests[pk].status = PENDING )
       => /\ requests'[pk].status = REJECTED
          /\ requests'[pk].approved_by = u
          /\ balances' = balances
    ]_vars

\* m1 rejected a request; the balances are those HR set up
C7_Witness ==
  \E pk \in DOMAIN requests :
    /\ response = Answer("approval", pk, "ok", {})
    /\ requests[pk].status = REJECTED
    /\ requests[pk].approved_by = "m1"
    /\ balances = InitialBalances

\* C8: the create view stores a request only if the requester has a balance
\* row for the leave type that holds at least the requested duration; with
\* no row, or with fewer days, the form is answered as invalid and no row is
\* stored.
C8_CreateNeedsBalance ==
  [][\A u \in Users, lt \in LeaveTypes, s \in Days, e \in Days :
       LeaveRequestCreateView(u, lt, s, e)
       => /\ requests' # requests
             => /\ <<u, lt>> \in DOMAIN balances
                /\ balances[<<u, lt>>].remaining_days >= (e - s) + 1
          /\ ( \/ <<u, lt>> \notin DOMAIN balances
               \/ balances[<<u, lt>>].remaining_days < (e - s) + 1 )
             => /\ requests' = requests
                /\ nextpk' = nextpk
                /\ balances' = balances
                /\ response'.code = "invalid"
    ]_vars

\* e1 asked for more days than are left and was told so
C8_Witness ==
  /\ response = Answer("create", 0, "invalid", {<<"__all__", "insufficient">>})
  /\ balances[<<"e1", "annual">>].remaining_days = 1
  /\ DOMAIN requests # {}

C10_RangeKept ==
  /\ [](\A pk \in DOMAIN requests : requests[pk].end_date >= requests[pk].start_date)
  /\ [][\A u \in Users, lt \in LeaveTypes, s \in Days, e \in Days :
          e < s =>
            /\ LeaveRequestCreateView(u, lt, s, e)
               => /\ requests' = requests
                  /\ "end_date" \in Fields(response'.errors)
            /\ \A pk \in DOMAIN requests :
                 ( /\ LeaveRequestUpdateView(u, pk, lt, s, e)
                   /\ u = requests[pk].employee
                   /\ requests[pk].status = PENDING )
                 => /\ requests' = requests
                    /\ "end_date" \in Fields(response'.errors)
            /\ \A emp \in AdminEmployees, st \in STATUS_CHOICES :
                 AdminAddView(u, emp, lt, st, s, e)
                 => /\ requests' = requests
                    /\ "end_date" \in Fields(response'.errors)
       ]_vars

\* the owner posted an edit with the dates reversed and got the end_date error
C10_Witness ==
  /\ response.view = "update"
  /\ response.code = "invalid"
  /\ <<"end_date", "before_start">> \in response.errors
  /\ response.pk \in DOMAIN requests

\* C11: the duration of every stored request is (end_date - start_date) + 1,
\* at least 1, and 1 when the dates are equal; the create view admits a
\* request exactly when remaining_days holds that many days, and an approval
\* takes that many days off the balance.
C11_DurationInclusive ==
  /\ [](\A pk \in DOMAIN requests :
          LET r == requests[pk]
          IN r.start_date <= r.end_date
             => /\ duration(r) = (r.end_date - r.start_date) + 1
                /\ duration(r) >= 1
                /\ r.start_date = r.end_date => duration(r) = 1)
  /\ [][\A u \in Users, pk \in Pks, lt \in LeaveTypes, s \in Days, e \in Days :
          /\ ( /\ LeaveRequestCreateView(u, lt, s, e)
               /\ today <= s /\ s <= e
               /\ <<u, lt>> \in DOMAIN balances )
             => ( response'.code = "ok"
                  <=> balances[<<u, lt>>].remaining_days >= (e - s) + 1 )
          /\ ( /\ LeaveApprovalUpdateView(u, pk, APPROVED)
               /\ Authority(u, pk)
               /\ requests[pk].status = PENDING
               /\ OwnKey(pk) \in DOMAIN balances
               /\ balances[OwnKey(pk)].remaining_days
                    >= (requests[pk].end_date - requests[pk].start_date) + 1 )
             => balances'[OwnKey(pk)].remaining_days
                  = balances[OwnKey(pk)].remaining_days
                      - ((requests[pk].end_date - requests[pk].start_date) + 1)
       ]_vars

\* a request for a single day was approved and took one day off the balance
C11_Witness ==
  \E pk \in DOMAIN requests :
    /\ DOMAIN requests = {pk}
    /\ response = Answer("approval", pk, "ok", {})
    /\ requests[pk].start_date = requests[pk].end_date
    /\ requests[pk].status = APPROVED
    /\ balances[OwnKey(pk)].remaining_days = MaxLeaveDays - 1

\* C12: a create that succeeds stores exactly one new request, owned by the
\* acting user, Pending, with approved_by unset and the posted leave type and
\* dates; it changes no other request and no balance row.
C12_CreatePending ==
  [][\A u \in Users, lt \in LeaveTypes, s \in Days \cup {NoDate}, e \in Days \cup {NoDate} :
       (LeaveRequestCreateView(u, lt, s, e) /\ response'.code = "ok")
       => /\ nextpk \notin DOMAIN requests
          /\ DOMAIN requests' = DOMAIN requests \cup {nextpk}
          /\ \A p \in DOMAIN requests : requests'[p] = requests[p]
          /\ requests'[nextpk] =
               [employee |-> u, leave_type |-> lt, start_date |-> s, end_date |-> e,
                status |-> PENDING, approved_by |-> NoUser]
          /\ balances' = balances
    ]_vars

\* e1 created a second request; both are kept and no balance has changed
C12_Witness ==
  /\ response = Answer("create", response.pk, "ok", {})
  /\ response.pk \in DOMAIN requests
  /\ Cardinality(DOMAIN requests) = 2
  /\ requests[response.pk].employee = "e1"
  /\ requests[response.pk].status = PENDING
  /\ requests[response.pk].approved_by = NoUser
  /\ balances = InitialBalances

\* C13: an edit succeeds only for the owner of a Pending request; an edit
\* posted by anyone else, or for a request that is Approved, Rejected or
\* Cancelled, is answered 403 and leaves every request and balance as it was.
C13_EditGuard ==
  [][\A u \in Users, pk \in Pks, lt \in LeaveTypes, s \in Days, e \in Days :
       (LeaveRequestUpdateView(u, pk, lt, s, e) /\ pk \in DOMAIN requests)
       => /\ response'.code = "ok"
             => /\ u = requests[pk].employee
                /\ requests[pk].status = PENDING
          /\ ~(u = requests[pk].employee /\ requests[pk].status = PENDING)
             => /\ requests' = requests
                /\ balances' = balances
                /\ response'.code = "403"
    ]_vars

\* an edit of an Approved request was answered 403
C13_Witness ==
  /\ response.view = "update"
  /\ response.code = "403"
  /\ response.pk \in DOMAIN requests
  /\ requests[response.pk].status = APPROVED

\* C14: an edit applies the balance rule: an edit of a Pending request by
\* its owner succeeds only if the owner has a balance row for the posted
\* leave type with remaining_days >= the posted duration; otherwise it fails
\* and changes nothing.
C14_EditChecksBalance ==
  [][\A u \in Users, pk \in Pks, lt \in LeaveTypes, s \in Days, e \in Days :
       ( /\ LeaveRequestUpdateView(u, pk, lt, s, e)
         /\ pk \in DOMAIN requests
         /\ u = requests[pk].employee
         /\ requests[pk].status = PENDING )
       => /\ response'.code = "ok"
             => /\ <<u, lt>> \in DOMAIN balances
                /\ balances[<<u, lt>>].remaining_days >= (e - s) + 1
          /\ ( \/ <<u, lt>> \notin DOMAIN balances
               \/ balances[<<u, lt>>].remaining_days < (e - s) + 1 )
             => /\ requests' = requests
                /\ balances' = balances
    ]_vars

\* C15: the past-date rule is for new requests only: an edit of a Pending
\* request by its owner with start_date before today, the dates in order and
\* enough balance is not answered with the past-date error and succeeds.
C15_EditAllowsPastStart ==
  [][\A u \in Users, pk \in Pks, lt \in LeaveTypes, s \in Days, e \in Days :
       ( /\ LeaveRequestUpdateView(u, pk, lt, s, e)
         /\ pk \in DOMAIN requests
         /\ u = requests[pk].employee
         /\ requests[pk].status = PENDING
         /\ s < today /\ s <= e
         /\ <<u, lt>> \in DOMAIN balances
         /\ balances[<<u, lt>>].remaining_days >= (e - s) + 1 )
       => /\ <<"start_date", "past">> \notin response'.errors
          /\ response'.code = "ok"
          /\ requests'[pk].start_date = s
    ]_vars

\* C16: a cancel (the delete view, which answers "cancelled") is permitted
\* exactly when the actor owns the request and can_be_cancelled holds of it
\* (status Pending or Approved, start_date after today); a cancel that is not
\* permitted changes nothing.
C16_CancelRule ==
  [][\A u \in Users, pk \in Pks :
       (LeaveRequestDeleteView(u, pk) /\ pk \in DOMAIN requests)
       => LET permitted == /\ u = requests[pk].employee
                           /\ can_be_cancelled(requests[pk])
                           /\ requests[pk].status \in {PENDING, APPROVED}
                           /\ requests[pk].start_date > today
          IN /\ response'.code = "ok" <=> permitted
             /\ ~permitted => requests' = requests /\ balances' = balances
    ]_vars

\* C17: a cancel that succeeds keeps the request stored, with status
\* Cancelled and every other field as it was.
C17_CancelKeepsRow ==
  [][\A u \in Users, pk \in Pks :
       (LeaveRequestDeleteView(u, pk) /\ response'.code = "ok")
       => /\ pk \in DOMAIN requests'
          /\ requests'[pk] = [requests[pk] EXCEPT !.status = CANCELLED]
    ]_vars

\* C18: when the owner posts a delete for a Pending request of theirs, the
\* request is gone afterwards, every other request is kept and no balance
\* changes; a delete posted by anyone else, or for a request that is not
\* Pending, removes nothing.
C18_DeletePending ==
  [][\A u \in Users, pk \in Pks :
       (LeaveRequestDeleteView(u, pk) /\ pk \in DOMAIN requests)
       => /\ (u = requests[pk].employee /\ requests[pk].status = PENDING)
             => /\ response'.code = "ok"
                /\ DOMAIN requests' = DOMAIN requests \ {pk}
                /\ \A p \in DOMAIN requests' : requests'[p] = requests[p]
                /\ balances' = balances
          /\ ~(u = requests[pk].employee /\ requests[pk].status = PENDING)
             => /\ requests' = requests
                /\ balances' = balances
                /\ response'.code = "403"
    ]_vars

\* the owner deleted one of two requests: the other is still stored
C18_Witness ==
  /\ response = Answer("delete", response.pk, "ok", {})
  /\ response.pk \notin DOMAIN requests
  /\ DOMAIN requests # {}
  /\ nextpk = response.pk + 2

\* C19: no step of the request lifecycle raises the stored remaining_days of
\* a balance row or removes a row, also while approvals overlap.
C19_NeverRestored ==
  [][\A k \in DOMAIN balances :
       /\ k \in DOMAIN balances'
       /\ balances'[k].remaining_days <= balances[k].remaining_days
    ]_vars

\* C20: update_balance(days_used) on a row with remaining_days r leaves
\* r - days_used and reports success when days_used <= r, and leaves r and
\* reports failure otherwise, with carried_forward_days and
\* total_earned_days as they were; the row an approval stores is that row.
C20_UpdateBalanceContract ==
  /\ [](\A k \in DOMAIN balances, days_used \in 0..(MaxLeaveDays + 1) :
          LET b == balances[k]
              res == update_balance(b, days_used)
          IN /\ days_used <= b.remaining_days
                => /\ res.saved
                   /\ res.row.remaining_days = b.remaining_days - days_used
             /\ days_used > b.remaining_days
                => /\ ~res.saved
                   /\ res.row.remaining_days = b.remaining_days
             /\ res.row.carried_forward_days = b.carried_forward_days
             /\ res.row.total_earned_days = b.total_earned_days)
  /\ [][\A u \in Users, pk \in Pks :
          ( /\ LeaveApprovalUpdateView(u, pk, APPROVED)
            /\ Authority(u, pk)
            /\ requests[pk].status = PENDING
            /\ OwnKey(pk) \in DOMAIN balances )
          => LET b == balances[OwnKey(pk)]
                 days_used == (requests[pk].end_date - requests[pk].start_date) + 1
             IN /\ balances'[OwnKey(pk)] =
                     IF days_used <= b.remaining_days
                     THEN [b EXCEPT !.remaining_days = b.remaining_days - days_used]
                     ELSE b
                /\ \A k \in DOMAIN balances \ {OwnKey(pk)} : balances'[k] = balances[k]
       ]_vars

\* two requests of two days are Approved: update_balance took the days of
\* one and refused the other, so one day of three is left
C20_Witness ==
  \E p \in DOMAIN requests, q \in DOMAIN requests :
    /\ p # q
    /\ response = Answer("approval", q, "ok", {})
    /\ requests[p].status = APPROVED /\ requests[q].status = APPROVED
    /\ OwnKey(p) = OwnKey(q)
    /\ duration(requests[p]) = 2 /\ duration(requests[q]) = 2
    /\ balances[OwnKey(p)] =
         [InitialBalances[OwnKey(p)] EXCEPT !.remaining_days = MaxLeaveDays - 2]

\* C21: in every reachable state every stored request has approved_by set
\* exactly when its status is Approved or Rejected.
C21_ApprovedByIff ==
  \A pk \in DOMAIN requests :
    requests[pk].approved_by # NoUser
      <=> requests[pk].status \in {APPROVED, REJECTED}

\* C22: every balance row has 0 <= remaining_days <= total_earned_days +
\* carried_forward_days in every state reached from rows that satisfy it by
\* approvals, reset_balance and the admin action reset_balances.
C22_BalanceBounds ==
  \A k \in DOMAIN balances :
    /\ 0 <= balances[k].remaining_days
    /\ balances[k].remaining_days
         <= balances[k].total_earned_days + balances[k].carried_forward_days

\* C23: approve and reject succeed exactly when the request is Pending and
\* the actor has approval authority over its employee (is a manager, and the
\* manager of that employee); an actor with it moves the request to the
\* status posted, and a step of an actor without it changes the status of no
\* request.
C23_AuthorityDecides ==
  [][\A u \in AdminUsers, pk \in Pks :
       /\ \A st \in {APPROVED, REJECTED} :
            (LeaveApprovalUpdateView(u, pk, st) /\ pk \in DOMAIN requests)
            => /\ response'.code = "ok"
                    <=> (requests[pk].status = PENDING /\ Authority(u, pk))
               /\ response'.code = "ok" => requests'[pk].status = st
               /\ response'.code # "ok" => requests' = requests
       /\ \A queryset \in SUBSET Pks :
            ( /\ approve_leave_requests(u, queryset) \/ reject_leave_requests(u, queryset)
              /\ pk \in DOMAIN requests
              /\ ~Authority(u, pk) )
            => requests'[pk].status = requests[pk].status
    ]_vars

\* C24: a request that is Rejected or Cancelled never changes status again,
\* one that is Approved can only become Cancelled, and no other field of a
\* request that is not Pending ever changes.
C24_TerminalStates ==
  [][\A pk \in DOMAIN requests :
       LET r == requests[pk]
       IN r.status # PENDING
          => /\ pk \in DOMAIN requests'
             /\ r.status \in {REJECTED, CANCELLED} => requests'[pk].status = r.status
             /\ r.status = APPROVED => requests'[pk].status \in {APPROVED, CANCELLED}
             /\ \/ requests'[pk] = r
                \/ requests'[pk] = [r EXCEPT !.status = CANCELLED]
    ]_vars

\* C25: there is at most one balance row for an (employee, leave_type) pair:
\* entering a row for a pair that has one is refused and leaves the table as
\* it was; for a pair that has none the row entered is stored and the other
\* rows are kept.
C25_OneRowPerPair ==
  /\ [](\A employee \in BalanceHolders, lt \in LeaveTypes :
          Cardinality(balance_get(balances, employee, lt)) <= 1)
  /\ [][\A u \in AdminUsers, employee \in AdminEmployees, lt \in LeaveTypes,
          row \in BalanceForms :
          LeaveBalanceAdd(u, employee, lt, row)
          => /\ <<employee, lt>> \in DOMAIN balances
                => /\ balances' = balances
                   /\ response'.code = "invalid"
             /\ <<employee, lt>> \notin DOMAIN balances
                => /\ response'.code = "ok"
                   /\ DOMAIN balances' = DOMAIN balances \cup {<<employee, lt>>}
                   /\ balances'[<<employee, lt>>] = row
                   /\ \A k \in DOMAIN balances : balances'[k] = balances[k]
       ]_vars

\* a second row for e1 was refused; the row of e1, with one day taken, is
\* neither of the rows that can be entered
C25_Witness ==
  /\ response = Answer("balance_add", 0, "invalid", {<<"__all__", "unique_together">>})
  /\ <<"e1", "annual">> \in DOMAIN balances
  /\ balances[<<"e1", "annual">>].remaining_days = MaxLeaveDays - 1

\* C26: the approval list of a user holds exactly the Pending requests of
\* the employees under that user's authority, each once, in non-decreasing
\* order of start_date; a request that is Approved, Rejected or Cancelled,
\* or whose employee has another manager, is not in it.
C26_ApproverList ==
  \A u \in AdminUsers :
    /\ LeaveApprovalListView(u) # {}
    /\ \A q \in LeaveApprovalListView(u) :
         /\ {q[i] : i \in DOMAIN q}
              = {pk \in DOMAIN requests :
                   requests[pk].status = PENDING /\ Authority(u, pk)}
         /\ \A i \in DOMAIN q, j \in DOMAIN q : i # j => q[i] # q[j]
         /\ \A i \in DOMAIN q, j \in DOMAIN q :
              i < j => requests[q[i]].start_date <= requests[q[j]].start_date
         /\ \A i \in DOMAIN q :
              /\ requests[q[i]].status \notin {APPROVED, REJECTED, CANCELLED}
              /\ manager(requests[q[i]].employee) = u

\* m1 is shown the later request, which starts sooner, first; m2, who
\* manages nobody, is shown nothing
C26_Witness ==
  /\ LeaveApprovalListView("m1") = {<<2, 1>>}
  /\ requests[2].start_date < requests[1].start_date
  /\ LeaveApprovalListView("m2") = {<< >>}

\* C27: the approval view applied to a Pending request leaves it Approved or
\* Rejected whatever status is posted: it never stores it as Cancelled, and
\* never as Pending with approved_by changed.
C27_ApprovalOutcomes ==
  [][\A u \in Users, pk \in Pks, st \in STATUS_CHOICES :
       ( /\ LeaveApprovalUpdateView(u, pk, st)
         /\ pk \in DOMAIN requests
         /\ requests[pk].status = PENDING )
       => /\ response'.code = "ok" => requests'[pk].status \in {APPROVED, REJECTED}
          /\ requests'[pk].status # CANCELLED
          /\ requests'[pk].status = PENDING
               => requests'[pk].approved_by = requests[pk].approved_by
    ]_vars

\* C28: the admin bulk action approve_leave_requests deducts like every
\* other approval: each Pending request it approves whose balance row holds
\* at least its duration is Approved afterwards and remaining_days of that
\* row is lower by at least the duration.
C28_BulkApproveDeducts ==
  [][\A u \in AdminUsers, queryset \in SUBSET Pks, pk \in Pks :
       ( /\ approve_leave_requests(u, queryset)
         /\ pk \in queryset \cap DOMAIN requests
         /\ requests[pk].status = PENDING
         /\ OwnKey(pk) \in DOMAIN balances
         /\ balances[OwnKey(pk)].remaining_days >= duration(requests[pk]) )
       => /\ requests'[pk].status = APPROVED
          /\ balances'[OwnKey(pk)].remaining_days
               <= balances[OwnKey(pk)].remaining_days - duration(requests[pk])
    ]_vars

\* C29: the balance accounts for the approvals, each once: in every step
\* without a reset or an edit of a balance row, remaining_days of each row
\* falls by exactly the sum of the durations of the requests of its pair
\* that become Approved in that step, so that the days taken off a row are
\* always the days of its approved requests.
C29_BalanceAccounts ==
  [][\A k \in DOMAIN balances :
       LET becomes == {pk \in DOMAIN requests' :
                         /\ <<requests'[pk].employee, requests'[pk].leave_type>> = k
                         /\ requests'[pk].status = APPROVED
                         /\ pk \in DOMAIN requests => requests[pk].status # APPROVED}
           days[S \in SUBSET Pks] ==
             IF S = {} THEN 0
             ELSE LET x == CHOOSE y \in S : TRUE
                  IN duration(requests'[x]) + days[S \ {x}]
       IN /\ k \in DOMAIN balances'
          /\ balances[k].remaining_days - balances'[k].remaining_days = days[becomes]
    ]_vars

\* C30: an approval of a request whose (employee, leave_type) has no balance
\* row raises no error: the request is Approved and the balance table is as
\* it was; and an approval never creates or removes a row nor changes a row
\* of another pair.
C30_NoRowNoError ==
  [][\A u \in AdminUsers, pk \in Pks :
       ( /\ LeaveApprovalUpdateView(u, pk, APPROVED)
         /\ Authority(u, pk)
         /\ requests[pk].status = PENDING )
       => /\ OwnKey(pk) \notin DOMAIN balances
             => /\ response'.code = "ok"
                /\ requests'[pk].status = APPROVED
                /\ balances' = balances
          /\ DOMAIN balances' = DOMAIN balances
          /\ \A k \in DOMAIN balances \ {OwnKey(pk)} : balances'[k] = balances[k]
    ]_vars

\* a request of e1 was approved while e1 had no balance row
C30_Witness ==
  \E pk \in DOMAIN requests :
    /\ response = Answer("approval", pk, "ok", {})
    /\ requests[pk].status = APPROVED
    /\ OwnKey(pk) \notin DOMAIN balances
    /\ DOMAIN balances # {}
====
